---- MODULE Spec2Model ----
(***************************************************************************)
(* Model of the prompt library: the category table, the prompt table, the  *)
(* submission table and the handlers that write them                       *)
(* (src/app/routers/admin.py, src/app/routers/public.py,                   *)
(* src/seed/import_seed.py, src/app/models.py).                            *)
(*                                                                         *)
(* The three tables hold COMMITTED rows only.  A handler that commits      *)
(* several times and runs next to other requests (review_submission) is a  *)
(* process whose steps are cut at its commits; what its session has        *)
(* changed but not yet committed lives in the process's own record and is  *)
(* lost when the session closes without a commit                           *)
(* (src/app/database.py:11-13).                                            *)
(*                                                                         *)
(* Text is a sequence of one-character strings, so that slugify and strip  *)
(* are computed.  None and 0 are kept apart for ids (NULL = -1); None and  *)
(* "" are both the empty sequence for text, the code only ever tests text  *)
(* for truthiness.                                                         *)
(***************************************************************************)
EXTENDS Integers, Sequences, FiniteSets, TLC

\* ------------------------------------------------------------------ bounds
MaxSubs == 2
MaxPrompts == 2

Workers == {1, 2}

\* ------------------------------------------------------------------ values
NULL == -1
NoName == << >>

Foo == <<"F", "o">>
foo == <<"f", "o">>
Bar == <<"B", "a">>
Blank == <<" ">>

NameInputs == {Foo, foo, Bar, Blank}
TitleInputs == {"X"}
NoteInputs == {"note"}
Stamp == "utcnow"

\* ------------------------------------------------------------ text helpers
Lower(c) ==
    CASE c = "F" -> "f"
      [] c = "B" -> "b"
      [] OTHER -> c

IsAlnum(c) == c \in {"f", "o", "b", "a", "F", "B"}

IsSpace(c) == c = " "

RECURSIVE LStrip(_, _)
LStrip(s, drop) ==
    IF s # << >> /\ Head(s) \in drop THEN LStrip(Tail(s), drop) ELSE s

RECURSIVE RStrip(_, _)
RStrip(s, drop) ==
    IF s # << >> /\ s[Len(s)] \in drop
    THEN RStrip(SubSeq(s, 1, Len(s) - 1), drop)
    ELSE s

\* str.strip()
Strip(s) == RStrip(LStrip(s, {" "}), {" "})

RECURSIVE Collapse(_)
Collapse(s) ==
    IF Len(s) < 2 THEN s
    ELSE IF s[1] = "-" /\ s[2] = "-" THEN Collapse(Tail(s))
    ELSE <<s[1]>> \o Collapse(Tail(s))

\* slugify.slugify(name): lowercase, every run of characters that are not
\* letters or digits becomes one hyphen, hyphens at the ends are dropped
slugify(name) ==
    LET low == [i \in 1..Len(name) |-> Lower(name[i])]
        hyp == [i \in 1..Len(low) |-> IF IsAlnum(low[i]) THEN low[i] ELSE "-"]
    IN RStrip(LStrip(Collapse(hyp), {"-"}), {"-"})

\* ------------------------------------------------------------------- state
VARIABLES
    categories,   \* committed Category rows, id = index
    prompts,      \* committed Prompt rows, id = index
    submissions,  \* committed PromptSubmission rows, id = index
    rq,           \* per worker: the review_submission request it is serving
    response,     \* the response the caller has not read yet
    documents,    \* committed PromptDocument rows, a function of the ids
    blobs,        \* the object names the blob store holds
    ADMIN_KEY     \* the ADMIN_KEY variable of the process environment

vars == <<categories, prompts, submissions, rq, response, documents, blobs,
          ADMIN_KEY>>

CatIds == 1..Len(categories)
PromptIds == 1..Len(prompts)
SubIds == 1..Len(submissions)

\* ids a caller may put in a form: NULL (absent), 0, every existing id and
\* the first id that does not exist yet
IdInputs == {NULL} \cup (0..(Len(categories) + 1))

\* Python truthiness of an optional int
Truthy(id) == id # NULL /\ id # 0

IdleRq == [pc |-> "idle", sid |-> 0, status |-> "", notes |-> "",
           dirty |-> FALSE, final |-> NULL, name |-> NoName, pid |-> NULL]

NoResponse == ""

\* a cookie or header the request does not carry is None, as is the
\* variable of an environment that does not set it
Unset == "<None>"
Empty == ""
Key == "k"

EmptyTables ==
    /\ categories = << >>
    /\ prompts = << >>
    /\ submissions = << >>
    /\ rq = [w \in Workers |-> IdleRq]
    /\ response = NoResponse
    /\ documents = << >>
    /\ blobs = {}

\* a deployment that sets ADMIN_KEY
Init ==
    /\ EmptyTables
    /\ ADMIN_KEY = Key

\* ------------------------------------------------------ the category table
SeqMax(S) == IF S = {} THEN NULL ELSE CHOOSE m \in S : \A x \in S : x <= m

\* select(func.max(Category.sort_order)); NULL on an empty table
max_sort_order(cats) == SeqMax({cats[i].sort_order : i \in 1..Len(cats)})

\* (max_sort_order or 0) + 1
next_sort_order(cats) ==
    LET m == max_sort_order(cats) IN (IF Truthy(m) THEN m ELSE 0) + 1

\* the unique indexes on Category.name and Category.slug
UniqueNameOnly(cats) ==
    \A i, j \in 1..Len(cats) : i # j => cats[i].name # cats[j].name

UniqueOK(cats) ==
    \A i, j \in 1..Len(cats) :
        i # j => cats[i].name # cats[j].name /\ cats[i].slug # cats[j].slug

NewCategory(name, slug, parent, sort, sub) ==
    [name |-> name, slug |-> slug, parent_id |-> parent, sort_order |-> sort,
     from_sub |-> sub]

\* session.get(Model, id) is None
Missing(table, id) == id \notin 1..Len(table)

\* what closing the session without a commit leaves in a table
SessionCloseFlushes(committed, flushed) == flushed

SessionClose(committed, flushed) == committed

\* --------------------------------------------------------------- responses
\* a caller sends its next request after it has read the last response
Ready == response = NoResponse

Deliver ==
    /\ response # NoResponse
    /\ response' = NoResponse
    /\ UNCHANGED <<categories, prompts, submissions, rq, documents, blobs, ADMIN_KEY>>

\* the responses that are an exception no handler catches: the framework
\* answers 500 Internal Server Error
Uncaught == {"IntegrityError", "InternalError"}

\* the responses raised as HTTPException(status_code=409)
Conflict == {"CategoryCreationFailed"}

\* ---------------------------------------------------------- create_category
create_category(name, parent_id) ==
    LET new == NewCategory(name, slugify(name), parent_id,
                           next_sort_order(categories), 0)
        cats == Append(categories, new)
    IN /\ Ready
       /\ IF UniqueOK(cats)
          THEN /\ categories' = cats
               /\ response' = "CategoryCreated"
          ELSE /\ categories' = SessionClose(categories, cats)
               /\ response' = "IntegrityError"
       /\ UNCHANGED <<prompts, submissions, rq, documents, blobs, ADMIN_KEY>>

\* ---------------------------------------------------------- update_category
\* the parent_id form field: "" (NULL), a decimal number, or other text
NotAnId == -2

update_category(category_id, name, parent_id) ==
    /\ Ready
    /\ IF parent_id = NotAnId
       THEN /\ response' = "InvalidParentId"
            /\ UNCHANGED categories
       ELSE IF Missing(categories, category_id)
       THEN /\ response' = "NoSuchCategory"
            /\ UNCHANGED categories
       ELSE LET cats == [categories EXCEPT ![category_id].name = name,
                                           ![category_id].slug = slugify(name),
                                           ![category_id].parent_id = parent_id]
            IN IF UniqueOK(cats)
               THEN /\ categories' = cats
                    /\ response' = "CategoryUpdated"
               ELSE /\ categories' = SessionClose(categories, cats)
                    /\ response' = "IntegrityError"
    /\ UNCHANGED <<prompts, submissions, rq, documents, blobs, ADMIN_KEY>>

\* ------------------------------------------- move_category_up, _down
\* the rows .where(sort_order < own).order_by(sort_order.desc()).first() may
\* return: the order among rows of equal sort_order is the database's choice
PrevAnyLower(cats, id) ==
    {j \in 1..Len(cats) : cats[j].sort_order < cats[id].sort_order}

prev_category(cats, id) ==
    LET lower == {j \in 1..Len(cats) :
                     cats[j].sort_order < cats[id].sort_order}
    IN {j \in lower :
           \A k \in lower : cats[k].sort_order <= cats[j].sort_order}

\* .where(sort_order > own).order_by(sort_order.asc()).first()
NextAnyHigher(cats, id) ==
    {j \in 1..Len(cats) : cats[j].sort_order > cats[id].sort_order}

next_category(cats, id) ==
    LET higher == {j \in 1..Len(cats) :
                      cats[j].sort_order > cats[id].sort_order}
    IN {j \in higher :
           \A k \in higher : cats[k].sort_order >= cats[j].sort_order}

\* a.sort_order, b.sort_order = b.sort_order, a.sort_order
SwapSortOrder(cats, a, b) ==
    [cats EXCEPT ![a].sort_order = cats[b].sort_order,
                 ![b].sort_order = cats[a].sort_order]

\* the tables a move of category id may commit, given the rows the query
\* may return; the table itself when there is no such row
Moved(cats, id, found) ==
    IF found = {} THEN {cats} ELSE {SwapSortOrder(cats, id, j) : j \in found}

move_category_up(category_id) ==
    /\ Ready
    /\ IF Missing(categories, category_id)
       THEN /\ response' = "NoSuchCategory"
            /\ UNCHANGED categories
       ELSE LET found == prev_category(categories, category_id)
            IN /\ categories' \in Moved(categories, category_id, found)
               /\ response' = IF found = {} THEN "AlreadyAtTop"
                                            ELSE "CategoryMovedUp"
    /\ UNCHANGED <<prompts, submissions, rq, documents, blobs, ADMIN_KEY>>

move_category_down(category_id) ==
    /\ Ready
    /\ IF Missing(categories, category_id)
       THEN /\ response' = "NoSuchCategory"
            /\ UNCHANGED categories
       ELSE LET found == next_category(categories, category_id)
            IN /\ categories' \in Moved(categories, category_id, found)
               /\ response' = IF found = {} THEN "AlreadyAtBottom"
                                            ELSE "CategoryMovedDown"
    /\ UNCHANGED <<prompts, submissions, rq, documents, blobs, ADMIN_KEY>>

\* ------------------------------------------------------- the prompt handlers
\* the body of a prompt whose text no claim looks at
Body == <<"a">>

\* Prompt(title=..., category_id=..., status=...): subcategory_id and
\* instructions None until set
NewPrompt(title, category_id, status, origin) ==
    [title |-> title, body |-> Body, instructions |-> NoName,
     category_id |-> category_id, subcategory_id |-> NULL, status |-> status,
     origin |-> origin]

PromptStatusInputs == {"draft", "published", "archived"}

\* the status form field is any text
StatusFormInputs == PromptStatusInputs \cup {"pending"}

\* instructions if instructions else None: "" and None are both NoName
admin_create_prompt(title, body, instructions, category_id, status) ==
    /\ Ready
    /\ Len(prompts) < MaxPrompts
    /\ prompts' = Append(prompts,
           [NewPrompt(title, category_id, status, 0) EXCEPT
               !.body = body, !.instructions = instructions])
    /\ response' = "PromptCreated"
    /\ UNCHANGED <<categories, submissions, rq, documents, blobs, ADMIN_KEY>>

\* a field that is None is left as it is
Absent == "None"

update_prompt(prompt_id, status, category_id, subcategory_id) ==
    /\ Ready
    /\ IF Missing(prompts, prompt_id)
       THEN /\ response' = "PromptNotFound"
            /\ UNCHANGED prompts
       ELSE /\ prompts' = [prompts EXCEPT
                 ![prompt_id].status =
                     IF status # Absent THEN status ELSE @,
                 ![prompt_id].category_id =
                     IF category_id # NULL THEN category_id ELSE @,
                 ![prompt_id].subcategory_id =
                     IF subcategory_id # NULL THEN subcategory_id ELSE @]
            /\ response' = "PromptUpdated"
    /\ UNCHANGED <<categories, submissions, rq, documents, blobs, ADMIN_KEY>>

delete_prompt(prompt_id) ==
    /\ Ready
    /\ IF Missing(prompts, prompt_id)
       THEN /\ response' = "PromptNotFound"
            /\ UNCHANGED prompts
       ELSE /\ prompts' = [prompts EXCEPT ![prompt_id].status = "archived"]
            /\ response' = "PromptArchived"
    /\ UNCHANGED <<categories, submissions, rq, documents, blobs, ADMIN_KEY>>

\* ----------------------------------------------------- admin_categories_page
\* category_counts[category.id] of the page
category_counts(c) ==
    Cardinality({p \in PromptIds : prompts[p].category_id = c})

\* ------------------------------------------------------------ public reads
\* text LIKE pattern, case-insensitive: % is any run of characters, _ is any
\* one character, every other character is itself
RECURSIVE Like(_, _)
Like(text, pattern) ==
    IF pattern = << >> THEN text = << >>
    ELSE IF Head(pattern) = "%"
    THEN Like(text, Tail(pattern))
            \/ (text # << >> /\ Like(Tail(text), pattern))
    ELSE /\ text # << >>
         /\ Head(pattern) = "_" \/ Lower(Head(pattern)) = Lower(Head(text))
         /\ Like(Tail(text), Tail(pattern))

\* col(...).ilike(like); NULL for a column that is None
ilike(text, like) == text # NoName /\ Like(text, like)

\* the or_ of the three columns, with like = f"%{query}%"
TextMatches(p, query) ==
    LET like == <<"%">> \o query \o <<"%">>
    IN ilike(p.title, like) \/ ilike(p.body, like)
          \/ ilike(p.instructions, like)

\* Prompt.category_id == category or Prompt.subcategory_id == category
CategoryMatches(p, category) ==
    p.category_id = category \/ p.subcategory_id = category

\* session.exec(stmt).all() of list_prompts and prompts_partial: the ids of
\* the rows the statement selects, in the order of the table
Selected(query, category) ==
    SelectSeq([i \in 1..Len(prompts) |-> i],
              LAMBDA i :
                  /\ prompts[i].status = "published"
                  /\ query # << >> => TextMatches(prompts[i], query)
                  /\ Truthy(category) => CategoryMatches(prompts[i], category))

\* seq[start:stop]
SliceIndex(i, n) ==
    IF i < 0 THEN (IF i + n < 0 THEN 0 ELSE i + n)
    ELSE IF i > n THEN n ELSE i

Slice(seq, start, stop) ==
    LET lo == SliceIndex(start, Len(seq))
        hi == SliceIndex(stop, Len(seq))
    IN IF lo >= hi THEN << >> ELSE SubSeq(seq, lo + 1, hi)

\* the response of list_prompts; prompts_partial hands the same items and
\* total to its template
ListFromPageZero(query, category, page, page_size) ==
    LET found == Selected(query, category)
        total == Len(found)
        start == page * page_size
    IN [items |-> Slice(found, start, start + page_size),
        total |-> total,
        page |-> page,
        pageSize |-> page_size,
        totalPages |-> (total + page_size - 1) \div page_size]

list_prompts(query, category, page, page_size) ==
    LET found == Selected(query, category)
        total == Len(found)
        start == (page - 1) * page_size
    IN [items |-> Slice(found, start, start + page_size),
        total |-> total,
        page |-> page,
        pageSize |-> page_size,
        totalPages |-> (total + page_size - 1) \div page_size]

NotFound == 0

\* get_prompt: the id of the prompt returned, or 404
ReadAnyStatus(prompt_id) ==
    IF Missing(prompts, prompt_id) THEN NotFound ELSE prompt_id

get_prompt(prompt_id) ==
    IF Missing(prompts, prompt_id) \/ prompts[prompt_id].status # "published"
    THEN NotFound
    ELSE prompt_id

\* admin_prompts: select(Prompt), every row
admin_prompts == PromptIds

\* -------------------------------------------------------- create_submission
NewFlag == [kind |-> "new", id |-> NULL]
NotANumber == [kind |-> "text", id |-> NULL]

\* the category_id form field: "new", a decimal number, or other text
CategoryFormInputs ==
    {NewFlag, NotANumber}
        \cup {[kind |-> "int", id |-> i] : i \in 0..(Len(categories) + 1)}

NewSubmission(title, category_id, suggested) ==
    [title |-> title, category_id |-> category_id,
     suggested_category_name |-> suggested, status |-> "pending",
     reviewer_notes |-> "", reviewed_at |-> "", approved_prompt_id |-> NULL]

create_submission(title, category_id, suggested_category_name) ==
    /\ Ready
    /\ Len(submissions) < MaxSubs
    /\ IF category_id.kind = "new" /\ Strip(suggested_category_name) = << >>
       THEN /\ response' = "SuggestedNameRequired"
            /\ UNCHANGED submissions
       ELSE IF category_id.kind = "text"
       THEN /\ response' = "InvalidCategoryId"
            /\ UNCHANGED submissions
       ELSE /\ submissions' = Append(submissions,
                 IF category_id.kind = "new"
                 THEN NewSubmission(title, NULL, suggested_category_name)
                 ELSE NewSubmission(title, category_id.id, NoName))
            /\ response' = "SubmissionCreated"
    /\ UNCHANGED <<categories, prompts, rq, documents, blobs, ADMIN_KEY>>

\* --------------------------------------------------------- review_submission
NoAction == ""
ReviewNames == {Foo, foo, Blank}

\* the category_action / category_id / new_category_name form fields
ResolutionInputs ==
    {[action |-> NoAction, category_id |-> NULL, name |-> NoName]}
        \cup {[action |-> "existing", category_id |-> i, name |-> NoName] :
                 i \in IdInputs}
        \cup {[action |-> "new", category_id |-> NULL, name |-> n] :
                 n \in ReviewNames \cup {NoName}}

StatusInputs == {"approved", "rejected", "published"}

\* the UPDATE the session flushes for lines 76-78
ReviewedEveryRow(subs, sid, status, notes) ==
    [i \in 1..Len(subs) |->
        [subs[i] EXCEPT !.status = status, !.reviewer_notes = notes,
                        !.reviewed_at = Stamp]]

Reviewed(subs, sid, status, notes) ==
    [subs EXCEPT ![sid].status = status,
                 ![sid].reviewer_notes = notes,
                 ![sid].reviewed_at = Stamp]

\* the submission writes a commit of request r carries
Flush(subs, r) ==
    IF r.dirty THEN Reviewed(subs, r.sid, r.status, r.notes) ELSE subs

\* the request fails before its first commit: the session closes, the
\* flushed UPDATE is rolled back
Refuse(w, code, sid, flushed) ==
    /\ response' = code
    /\ submissions' = SessionClose(submissions, flushed)
    /\ UNCHANGED <<categories, prompts, rq, documents, blobs, ADMIN_KEY>>

\* lines 69-103 and 140-142: everything up to the first statement that
\* follows a read another request can change
ReviewBegin(w, sid, status, notes, res) ==
    /\ Ready
    /\ rq[w].pc = "idle"
    /\ IF Missing(submissions, sid)
       THEN Refuse(w, "SubmissionNotFound", sid, submissions)
       ELSE IF status \notin {"approved", "rejected"}
       THEN Refuse(w, "InvalidStatus", sid, submissions)
       ELSE
       LET sub == submissions[sid]
           flushed == Reviewed(submissions, sid, status, notes)
           go(pc, final, name) ==
               /\ rq' = [rq EXCEPT ![w] =
                    [pc |-> pc, sid |-> sid, status |-> status,
                     notes |-> notes, dirty |-> TRUE, final |-> final,
                     name |-> name, pid |-> NULL]]
               /\ UNCHANGED <<categories, prompts, submissions, response, documents, blobs, ADMIN_KEY>>
       IN IF status = "rejected"
          THEN go("finish", NULL, NoName)
          ELSE IF sub.suggested_category_name # NoName /\ res.action = "existing"
          THEN IF ~Truthy(res.category_id)
               THEN Refuse(w, "CategoryIdRequired", sid, flushed)
               ELSE IF Missing(categories, res.category_id)
               THEN Refuse(w, "CategoryNotFound", sid, flushed)
               ELSE go("make_prompt", res.category_id, NoName)
          ELSE IF sub.suggested_category_name # NoName /\ res.action = "new"
          THEN IF Strip(res.name) = << >>
               THEN Refuse(w, "CategoryNameRequired", sid, flushed)
               ELSE go("lookup", sub.category_id, Strip(res.name))
          ELSE IF ~Truthy(sub.category_id)
               THEN Refuse(w, "ValidCategoryRequired", sid, flushed)
               ELSE go("make_prompt", sub.category_id, NoName)

\* lines 107-111: the rows the name-or-slug query matches
MatchByNameOnly(cats, name, slug) ==
    {i \in 1..Len(cats) : cats[i].name = name}

existing(cats, name, slug) ==
    {i \in 1..Len(cats) : cats[i].name = name \/ cats[i].slug = slug}

\* lines 105-115
ReviewLookup(w) ==
    LET r == rq[w]
        found == existing(categories, r.name, slugify(r.name))
    IN /\ r.pc = "lookup"
       /\ IF found # {}
          THEN \E id \in found :
                  rq' = [rq EXCEPT ![w].pc = "make_prompt", ![w].final = id]
          ELSE rq' = [rq EXCEPT ![w].pc = "create_cat"]
       /\ UNCHANGED <<categories, prompts, submissions, response, documents, blobs, ADMIN_KEY>>

\* lines 117-138: the new category and the flushed submission are one commit
ReviewCreateCategory(w) ==
    LET r == rq[w]
        new == NewCategory(r.name, slugify(r.name), NULL,
                           next_sort_order(categories), r.sid)
        cats == Append(categories, new)
    IN /\ Ready
       /\ r.pc = "create_cat"
       /\ IF UniqueOK(cats)
          THEN /\ categories' = cats
               /\ submissions' = Flush(submissions, r)
               /\ rq' = [rq EXCEPT ![w].pc = "make_prompt",
                                   ![w].final = Len(cats),
                                   ![w].dirty = FALSE]
               /\ UNCHANGED response
          ELSE /\ categories' = SessionClose(categories, cats)
               /\ submissions' = SessionClose(submissions, Flush(submissions, r))
               /\ rq' = [rq EXCEPT ![w] = IdleRq]
               /\ response' = "CategoryCreationFailed"
       /\ UNCHANGED <<prompts, documents, blobs, ADMIN_KEY>>

\* lines 144-158: the prompt and whatever the session still holds of the
\* submission are one commit
ReviewCreatePrompt(w) ==
    LET r == rq[w]
    IN /\ r.pc = "make_prompt"
       /\ Len(prompts) < MaxPrompts
       /\ prompts' = Append(prompts,
              NewPrompt(submissions[r.sid].title, r.final, "published",
                        r.sid))
       /\ submissions' = Flush(submissions, r)
       /\ rq' = [rq EXCEPT ![w].pc = "finish", ![w].dirty = FALSE,
                           ![w].pid = Len(prompts) + 1]
       /\ UNCHANGED <<categories, response, documents, blobs, ADMIN_KEY>>

\* lines 160-165
ReviewFinish(w) ==
    LET r == rq[w]
        subs == Flush(submissions, r)
    IN /\ Ready
       /\ r.pc = "finish"
       /\ submissions' =
              IF r.status = "approved"
              THEN [subs EXCEPT ![r.sid].approved_prompt_id = r.pid]
              ELSE subs
       /\ rq' = [rq EXCEPT ![w] = IdleRq]
       /\ response' = "Reviewed"
       /\ UNCHANGED <<categories, prompts, documents, blobs, ADMIN_KEY>>

\* a statement of the request raises (the database is unreachable, the
\* server is stopped): the session closes without another commit
ReviewAbort(w) ==
    LET r == rq[w]
    IN /\ Ready
       /\ r.pc # "idle"
       /\ submissions' = SessionClose(submissions, Flush(submissions, r))
       /\ rq' = [rq EXCEPT ![w] = IdleRq]
       /\ response' = "InternalError"
       /\ UNCHANGED <<categories, prompts, documents, blobs, ADMIN_KEY>>

Review(w, statuses, resolutions) ==
    \/ \E sid \in 1..MaxSubs, st \in statuses, n \in NoteInputs,
          res \in resolutions : ReviewBegin(w, sid, st, n, res)
    \/ ReviewLookup(w)
    \/ ReviewCreateCategory(w)
    \/ ReviewCreatePrompt(w)
    \/ ReviewFinish(w)

Moderator == {1}

RaceResolutions == {[action |-> "new", category_id |-> NULL, name |-> Foo]}

Idle == \A w \in Workers : rq[w].pc = "idle"

PromptsOf(s) == {p \in PromptIds : prompts[p].origin = s}

\* ------------------------------------------------- the moderation workflow
ReviewCategoryForms == {NewFlag, NotANumber, [kind |-> "int", id |-> 1]}

\* one moderator: requests do not overlap, the other handlers run between
\* the commits of a review
NextReview ==
    \/ \E n \in {Foo, foo, Bar} : create_category(n, NULL)
    \/ \E t \in TitleInputs, c \in ReviewCategoryForms,
          n \in {Foo, Blank, NoName} : create_submission(t, c, n)
    \/ \E w \in Moderator : Review(w, StatusInputs, ResolutionInputs)
    \/ Deliver

SpecReview == Init /\ [][NextReview]_vars

\* the same, and a request may die at any statement
NextCrash ==
    \/ NextReview
    \/ \E w \in Moderator : ReviewAbort(w)

SpecCrash == Init /\ [][NextCrash]_vars

\* approvals only, every resolution
NextResolve ==
    \/ \E n \in {Foo, foo, Bar} : create_category(n, NULL)
    \/ \E t \in TitleInputs : create_submission(t, NewFlag, Foo)
    \/ \E w \in Moderator : Review(w, {"approved"}, ResolutionInputs)
    \/ Deliver

SpecResolve == Init /\ [][NextResolve]_vars

\* approving and rejecting, with and without resolution fields
NextReject ==
    \/ create_category(Foo, NULL)
    \/ \E t \in TitleInputs, c \in {NewFlag, [kind |-> "int", id |-> 1]} :
          create_submission(t, c, Foo)
    \/ \E w \in Moderator :
          Review(w, {"approved", "rejected"}, ResolutionInputs)
    \/ Deliver

SpecReject == Init /\ [][NextReject]_vars

\* two moderators approve at the same time, both with the new category Foo
NextRace ==
    \/ \E t \in TitleInputs : create_submission(t, NewFlag, Foo)
    \/ \E w \in Workers : Review(w, {"approved"}, RaceResolutions)
    \/ Deliver

SpecRace == Init /\ [][NextRace]_vars

\* ---------------------------------------------------------- import_seed_data
\* Category.sort_order when the constructor is given none
DefaultSortOrder == 0

SeedItemOf(category, title) ==
    [category |-> category, title |-> title, status |-> "published"]

\* the contents of prompts_seed.json
SeedFiles ==
    {<<SeedItemOf(Foo, "X"), SeedItemOf(Foo, "X"), SeedItemOf(foo, "X")>>,
     <<SeedItemOf(Blank, "X"), SeedItemOf(Bar, "X")>>}

\* the prompt the item adds to the session unless the title-and-category
\* query finds one, among the committed rows or the rows the session holds
SeedPromptUnchecked(item, cid, stored, held) ==
    Append(held, NewPrompt(item.title, cid, item.status, 0))

SeedPrompt(item, cid, stored, held) ==
    IF \/ \E p \in 1..Len(stored) :
              stored[p].title = item.title /\ stored[p].category_id = cid
       \/ \E p \in 1..Len(held) :
              held[p].title = item.title /\ held[p].category_id = cid
    THEN held
    ELSE Append(held, NewPrompt(item.title, cid, item.status, 0))

\* lines 40-92: the loop over the items from item idx on.  st holds the
\* committed categories and prompts, the prompts the session holds
\* (pending) and category_cache.  An IntegrityError of the commit of line 61
\* ends the script, the session closes and what it holds is lost.
RECURSIVE SeedLoop(_, _, _)
SeedLoop(st, data, idx) ==
    IF idx > Len(data)
    THEN [categories |-> st.categories, prompts |-> st.prompts \o st.pending]
    ELSE
    LET item == data[idx]
        name == Strip(item.category)
        cached == {e \in st.cache : e[1] = name}
        found == {i \in 1..Len(st.categories) : st.categories[i].name = name}
        new == NewCategory(name, slugify(name), NULL, DefaultSortOrder, 0)
        cats == Append(st.categories, new)
        flushed == st.prompts \o st.pending
        keep(cid) ==
            SeedLoop([st EXCEPT
                         !.cache = @ \cup {<<name, cid>>},
                         !.pending = SeedPrompt(item, cid, st.prompts, @)],
                     data, idx + 1)
    IN IF name = << >> THEN SeedLoop(st, data, idx + 1)
       ELSE IF cached # {} THEN keep((CHOOSE e \in cached : TRUE)[2])
       ELSE IF found # {} THEN keep(CHOOSE cid \in found : TRUE)
       ELSE IF UniqueOK(cats)
       THEN SeedLoop([categories |-> cats, prompts |-> flushed,
                      cache |-> st.cache \cup {<<name, Len(cats)>>},
                      pending |-> SeedPrompt(item, Len(cats), flushed, << >>)],
                     data, idx + 1)
       ELSE [categories |-> SessionClose(st.categories, cats),
             prompts |-> SessionClose(st.prompts, flushed)]

\* lines 30-93, one run of the script
import_seed_data(data) ==
    LET done == SeedLoop([categories |-> categories, prompts |-> prompts,
                          cache |-> {}, pending |-> << >>], data, 1)
    IN /\ Len(done.prompts) <= MaxPrompts
       /\ categories' = done.categories
       /\ prompts' = done.prompts
       /\ UNCHANGED <<submissions, rq, response, documents, blobs, ADMIN_KEY>>

\* ------------------------------------------------------ category names
NextNames ==
    \/ \E n \in {Foo, foo, Bar} : create_category(n, NULL)
    \/ \E id \in 1..(Len(categories) + 1), n \in {Foo, foo, Bar} :
          update_category(id, n, NULL)
    \/ \E t \in TitleInputs : create_submission(t, NewFlag, Foo)
    \/ \E w \in Moderator : Review(w, {"approved"}, RaceResolutions)
    \/ \E data \in SeedFiles : import_seed_data(data)
    \/ Deliver

SpecNames == Init /\ [][NextNames]_vars

\* ------------------------------------------------------- the category tree
TreeNames == {Foo, Bar}

\* parent ids a form may carry: none, every existing id, the next id
TreeParents == {NULL} \cup (1..(Len(categories) + 1))

\* the admin form sends the name the category has
NameOf(id) == IF Missing(categories, id) THEN Foo ELSE categories[id].name

NextTree ==
    \/ \E n \in TreeNames, p \in TreeParents : create_category(n, p)
    \/ \E id \in 1..(Len(categories) + 1), p \in TreeParents \cup {NotAnId} :
          update_category(id, NameOf(id), p)
    \/ \E t \in TitleInputs, c \in CatIds, st \in PromptStatusInputs :
          admin_create_prompt(t, Body, NoName, c, st)
    \/ \E id \in 1..MaxPrompts, st \in PromptStatusInputs \cup {Absent},
          c \in {NULL} \cup CatIds : update_prompt(id, st, c, NULL)
    \/ \E id \in 1..MaxPrompts : delete_prompt(id)
    \/ Deliver

SpecTree == Init /\ [][NextTree]_vars

\* ---------------------------------------------------- the global ordering
\* two create_category requests served by two threads: both read the
\* maximum (lines 254-256) before either commits (line 267), both commits
\* pass the unique indexes
create_category_twice(name_a, name_b) ==
    LET sort == next_sort_order(categories)
        one == Append(categories,
                      NewCategory(name_a, slugify(name_a), NULL, sort, 0))
        two == Append(one, NewCategory(name_b, slugify(name_b), NULL, sort, 0))
    IN /\ Ready
       /\ UniqueOK(two)
       /\ categories' = two
       /\ response' = "CategoryCreated"
       /\ UNCHANGED <<prompts, submissions, rq, documents, blobs, ADMIN_KEY>>

NextOrder ==
    \/ \E n \in NameInputs, p \in {NULL} \cup CatIds : create_category(n, p)
    \/ \E n, m \in NameInputs : create_category_twice(n, m)
    \/ \E data \in SeedFiles : import_seed_data(data)
    \/ \E id \in 1..(Len(categories) + 1) : move_category_up(id)
    \/ \E id \in 1..(Len(categories) + 1) : move_category_down(id)
    \/ Deliver

SpecOrder == Init /\ [][NextOrder]_vars

\* the four operations that give or exchange sort_order values
NextDistinct ==
    \/ \E n \in NameInputs : create_category(n, NULL)
    \/ \E n, m \in NameInputs : create_category_twice(n, m)
    \/ \E t \in TitleInputs : create_submission(t, NewFlag, Foo)
    \/ \E w \in Moderator : Review(w, {"approved"}, RaceResolutions)
    \/ \E id \in 1..(Len(categories) + 1) : move_category_up(id)
    \/ \E id \in 1..(Len(categories) + 1) : move_category_down(id)
    \/ Deliver

SpecDistinct == Init /\ [][NextDistinct]_vars

\* ------------------------------------------------------ the public listing
ListTitles == {Foo, Bar}
ListInstructions == {NoName, foo}

\* the query parameter: absent, a word, one letter, the LIKE wildcard _
QueryInputs == {NoName, foo, <<"a">>, <<"B">>, <<"_">>}

PageInputs == 1..(MaxPrompts + 1)

NextList ==
    \/ \E n \in TreeNames, p \in {NULL} \cup CatIds : create_category(n, p)
    \/ \E t \in ListTitles, i \in ListInstructions, c \in CatIds,
          st \in PromptStatusInputs : admin_create_prompt(t, Body, i, c, st)
    \/ \E id \in 1..MaxPrompts, st \in {Absent, "published"},
          sub \in {NULL} \cup CatIds : update_prompt(id, st, NULL, sub)
    \/ \E id \in 1..MaxPrompts : delete_prompt(id)
    \/ Deliver

SpecList == Init /\ [][NextList]_vars

\* the same handlers on prompts with one text and categories without parents
NextPublic ==
    \/ \E n \in TreeNames : create_category(n, NULL)
    \/ \E c \in CatIds, st \in StatusFormInputs :
          admin_create_prompt(Foo, Body, NoName, c, st)
    \/ \E id \in 1..MaxPrompts, st \in {Absent, "published", "pending"},
          sub \in {NULL} \cup CatIds : update_prompt(id, st, NULL, sub)
    \/ \E id \in 1..MaxPrompts : delete_prompt(id)
    \/ Deliver

SpecPublic == Init /\ [][NextPublic]_vars

\* ------------------------------------------------------------ admin_required
\* the admin_session cookie and the X-Admin-Key header of a request
CredentialInputs == {Unset, Empty, Key, "x"}

\* the values a deployment gives the variable
KeyInputs == {Unset, Empty, Key}

admin_required(admin_session, admin_key) ==
    IF admin_session = ADMIN_KEY THEN "Granted"
    ELSE IF ADMIN_KEY \in {Unset, Empty} THEN "AdminKeyNotConfigured"
    ELSE IF admin_key = ADMIN_KEY THEN "Granted"
    ELSE "AdminAccessRequired"

\* GET /api/categories behind Depends(admin_required)
admin_categories(admin_session, admin_key) ==
    /\ Ready
    /\ response' = IF admin_required(admin_session, admin_key) = "Granted"
                   THEN "CategoryList"
                   ELSE admin_required(admin_session, admin_key)
    /\ UNCHANGED <<categories, prompts, submissions, rq, documents, blobs,
                   ADMIN_KEY>>

InitGate ==
    /\ EmptyTables
    /\ ADMIN_KEY \in KeyInputs

NextGate ==
    \/ \E n \in {Foo, foo, Bar} : create_category(n, NULL)
    \/ \E ck, hd \in CredentialInputs : admin_categories(ck, hd)
    \/ Deliver

SpecGate == InitGate /\ [][NextGate]_vars

\* -------------------------------------------------------- the blob store
MaxDocs == 2

\* object names, as the segments between their slashes
PrivateA == <<"private", "a">>
PublicB == <<"public", "b">>
PathInputs == {PrivateA, PublicB}
Url == <<"u">>

\* PUBLIC_OBJECT_SEARCH_PATHS
public_paths == {<<"public">>}

\* file_path.startswith(f"{public_dir}/") for one of the public paths
is_file_public(file_path) ==
    \E public_dir \in public_paths :
        /\ Len(file_path) > Len(public_dir)
        /\ SubSeq(file_path, 1, Len(public_dir)) = public_dir

\* the store answers the request ("up") or the request fails ("down": a
\* RequestException, a status other than the expected ones)
StoreInputs == {"up", "down"}

\* the metadata, None for a 404, HTTPException(500) for anything else
get_file_metadata(file_path, store) ==
    IF store = "down" THEN "raise"
    ELSE IF file_path \in blobs THEN "metadata"
    ELSE "None"

\* True for a 204, False for a 404, HTTPException(500) for anything else
delete_file(file_path, store) ==
    IF store = "down" THEN [result |-> "raise", blobs |-> blobs]
    ELSE IF file_path \in blobs
    THEN [result |-> "True", blobs |-> blobs \ {file_path}]
    ELSE [result |-> "False", blobs |-> blobs]

\* the client PUTs the file to the presigned URL it was given
upload_file(file_path) ==
    /\ file_path \notin blobs
    /\ blobs' = blobs \cup {file_path}
    /\ UNCHANGED <<categories, prompts, submissions, rq, response, documents,
                   ADMIN_KEY>>

\* ------------------------------------------------- the document handlers
DocIds == DOMAIN documents

\* the rowid SQLite gives the next row: one more than the largest in use
NewDocId == IF DocIds = {} THEN 1 ELSE SeqMax(DocIds) + 1

NewDocument(prompt_id, document_type, file_path, external_url) ==
    [prompt_id |-> prompt_id, document_type |-> document_type,
     file_path |-> file_path, external_url |-> external_url]

\* the document_type form field is any text
DocumentTypeInputs == {"file", "link", "note"}

save_document_metadata(prompt_id, document_type, file_path, external_url, store) ==
    LET checks == document_type = "file" /\ file_path # NoName
        file_metadata == get_file_metadata(file_path, store)
        document == NewDocument(prompt_id, document_type, file_path,
                                external_url)
    IN /\ Ready
       /\ NewDocId <= MaxDocs
       /\ IF Missing(prompts, prompt_id)
          THEN /\ response' = "PromptNotFound"
               /\ UNCHANGED documents
          ELSE IF document_type \notin {"file", "link"}
          THEN /\ response' = "InvalidDocumentType"
               /\ UNCHANGED documents
          ELSE IF document_type = "file" /\ file_path = NoName
          THEN /\ response' = "FilePathRequired"
               /\ UNCHANGED documents
          ELSE IF document_type = "link" /\ external_url = NoName
          THEN /\ response' = "ExternalUrlRequired"
               /\ UNCHANGED documents
          ELSE IF checks /\ file_metadata # "metadata"
          THEN /\ response' = "FailedToVerifyUploadedFile"
               /\ UNCHANGED documents
          ELSE /\ documents' =
                    [i \in DocIds \cup {NewDocId} |->
                        IF i = NewDocId THEN document ELSE documents[i]]
               /\ response' = "DocumentSaved"
       /\ UNCHANGED <<categories, prompts, submissions, rq, blobs, ADMIN_KEY>>

DeleteNeedsTheStore(doc_id, store) ==
    /\ Ready
    /\ IF doc_id \notin DocIds
       THEN /\ response' = "DocumentNotFound"
            /\ UNCHANGED <<documents, blobs>>
       ELSE LET document == documents[doc_id]
                deleted == delete_file(document.file_path, store)
            IN IF document.document_type = "file"
                  /\ document.file_path # NoName
                  /\ deleted.result # "True"
               THEN /\ response' = "FailedToDeleteFile"
                    /\ UNCHANGED <<documents, blobs>>
               ELSE /\ blobs' = IF document.document_type = "file"
                                   /\ document.file_path # NoName
                                THEN deleted.blobs ELSE blobs
                    /\ documents' =
                           [i \in DocIds \ {doc_id} |-> documents[i]]
                    /\ response' = "DocumentDeleted"
    /\ UNCHANGED <<categories, prompts, submissions, rq, ADMIN_KEY>>

delete_document(doc_id, store) ==
    /\ Ready
    /\ IF doc_id \notin DocIds
       THEN /\ response' = "DocumentNotFound"
            /\ UNCHANGED <<documents, blobs>>
       ELSE LET document == documents[doc_id]
                deleted == delete_file(document.file_path, store)
            IN /\ blobs' = IF document.document_type = "file"
                              /\ document.file_path # NoName
                           THEN deleted.blobs ELSE blobs
               /\ documents' = [i \in DocIds \ {doc_id} |-> documents[i]]
               /\ response' = "DocumentDeleted"
    /\ UNCHANGED <<categories, prompts, submissions, rq, ADMIN_KEY>>

\* the responses that are an HTTPException of status 404, 400 and 500
Status404 == {"PromptNotFound", "DocumentNotFound", "FileNotFound",
              "DocumentNotAccessible"}
Status400 == {"InvalidDocumentType", "FilePathRequired",
              "ExternalUrlRequired"}
Status500 == Uncaught \cup {"FailedToVerifyUploadedFile", "ErrorServingFile"}

\* serve_document.  The document is the first row the file_path query
\* returns: without an index on file_path SQLite scans the table in rowid
\* order
serve_document(file_path, store) ==
    LET file_metadata == get_file_metadata(file_path, store)
        found == {i \in DocIds : documents[i].file_path = file_path}
        document == documents[CHOOSE i \in found : \A j \in found : i <= j]
    IN IF file_metadata = "raise" THEN "ErrorServingFile"
       ELSE IF file_metadata = "None" THEN "FileNotFound"
       ELSE IF is_file_public(file_path) THEN "Redirect"
       ELSE IF found = {} THEN "DocumentNotFound"
       ELSE IF \/ Missing(prompts, document.prompt_id)
               \/ prompts[document.prompt_id].status # "published"
       THEN "DocumentNotAccessible"
       ELSE "Redirect"

\* get_document_info: the document's description, or the 404
get_document_info(document_id) ==
    IF document_id \notin DocIds THEN "DocumentNotFound"
    ELSE IF \/ Missing(prompts, documents[document_id].prompt_id)
            \/ prompts[documents[document_id].prompt_id].status # "published"
    THEN "DocumentNotAccessible"
    ELSE "DocumentInfo"

NextDocs ==
    \/ \E st \in {"published", "draft"} :
          admin_create_prompt(Foo, Body, NoName, NULL, st)
    \/ \E id \in 1..MaxPrompts, st \in {"published", "archived"} :
          update_prompt(id, st, NULL, NULL)
    \/ \E path \in PathInputs : upload_file(path)
    \/ \E p \in 1..MaxPrompts, t \in DocumentTypeInputs,
          path \in PathInputs \cup {NoName}, url \in {Url, NoName},
          store \in StoreInputs :
          save_document_metadata(p, t, path, url, store)
    \/ \E id \in 1..(MaxDocs + 1), store \in StoreInputs :
          delete_document(id, store)
    \/ Deliver

SpecDocs == Init /\ [][NextDocs]_vars

\* registering and deleting the documents of published prompts
NextDelete ==
    \/ admin_create_prompt(Foo, Body, NoName, NULL, "published")
    \/ upload_file(PrivateA)
    \/ \E p \in 1..MaxPrompts, t \in {"file", "link"},
          path \in {PrivateA, NoName}, url \in {Url, NoName},
          store \in StoreInputs :
          save_document_metadata(p, t, path, url, store)
    \/ \E id \in 1..(MaxDocs + 1), store \in StoreInputs :
          delete_document(id, store)
    \/ Deliver

SpecDelete == Init /\ [][NextDelete]_vars

\* ------------------------------------------------------ repeated seed runs
SeedItems ==
    {SeedItemOf(c, t) : c \in {Foo, Bar}, t \in {"X", "Y"}}
        \cup {SeedItemOf(foo, "X"), SeedItemOf(Blank, "X")}

\* the seed files of one to three items
SeedLists ==
    UNION {[1..n -> SeedItems] : n \in 1..3}

\* the tables one run of the script leaves, started on the tables given
SeedRun(cats, proms, data) ==
    SeedLoop([categories |-> cats, prompts |-> proms, cache |-> {},
              pending |-> << >>], data, 1)

NextSeed ==
    \/ \E n \in {Foo, Bar} : create_category(n, NULL)
    \/ \E c \in 1..2 : admin_create_prompt("X", Body, NoName, c, "published")
    \/ \E data \in SeedLists : import_seed_data(data)
    \/ Deliver

SpecSeed == Init /\ [][NextSeed]_vars

\* ------------------------------------------------------------------ claims
Terminal(s) == submissions[s].status \in {"approved", "rejected"}

\* C1: a submission's status changes at most once; once it is approved or
\* rejected no review call changes it again.
C1_StatusIsTerminal ==
    [][\A s \in SubIds :
          Terminal(s) => submissions'[s].status = submissions[s].status]_vars

\* C2: when no review is in progress, every submission has given rise to at
\* most one Prompt, and to exactly one if and only if it is approved.
C2_OnePromptIffApproved ==
    Idle =>
        \A s \in SubIds :
            /\ Cardinality(PromptsOf(s)) <= 1
            /\ Cardinality(PromptsOf(s)) = 1
                   <=> submissions[s].status = "approved"

\* C3: in every committed state a submission is approved if and only if its
\* approved_prompt_id is set, and approved_prompt_id names an existing Prompt.
C3_ApprovedIffPromptId ==
    \A s \in SubIds :
        /\ submissions[s].status = "approved"
               <=> submissions[s].approved_prompt_id # NULL
        /\ submissions[s].approved_prompt_id # NULL
               => submissions[s].approved_prompt_id \in PromptIds

\* C4: once no review is in progress (the approval completed or failed), no
\* category created by an approval and no approved submission is left
\* without the promoted prompt.
C4_NoHalfAppliedApproval ==
    Idle =>
        /\ \A c \in CatIds :
              categories[c].from_sub # 0 =>
                  \E p \in PromptsOf(categories[c].from_sub) :
                      prompts[p].category_id = c
        /\ \A s \in SubIds :
              submissions[s].status = "approved" => PromptsOf(s) # {}

\* C5: a review that is refused because no category can be resolved
\* (ValidationError "valid category required", NotFound for the category of
\* use_existing) changes no submission, no prompt and no category.
C5_UnresolvedApprovalChangesNothing ==
    [][response' \in {"ValidCategoryRequired", "CategoryNotFound"}
          /\ response = NoResponse
          => /\ submissions' = submissions
             /\ prompts' = prompts
             /\ categories' = categories
             /\ rq' = rq]_vars

C5_Witness ==
    /\ response = "CategoryNotFound"
    /\ \E s \in SubIds :
          /\ submissions[s].suggested_category_name # NoName
          /\ submissions[s].status = "pending"
          /\ submissions[s].reviewed_at = ""

Matches(c, name) ==
    categories[c].name = name \/ categories[c].slug = slugify(name)

\* C6: an approval that resolves to create_new with a name that an existing
\* category has, or whose slug an existing category has, creates no category
\* and goes on with that category, and the promoted prompt gets its id.
C6_CreateNewReusesExisting ==
    [][\A w \in Workers :
          /\ rq[w].pc = "lookup" /\ rq'[w].pc # "lookup"
             /\ (\E c \in CatIds : Matches(c, rq[w].name))
             => /\ categories' = categories
                /\ rq'[w].pc = "make_prompt"
                /\ rq'[w].final \in CatIds
                /\ Matches(rq'[w].final, rq[w].name)
          /\ rq[w].pc = "make_prompt" /\ rq'[w].pc = "finish"
             => /\ Len(prompts') = Len(prompts) + 1
                /\ prompts'[Len(prompts')].category_id = rq[w].final
                /\ categories' = categories]_vars

\* the second of two approvals with create_new: the category was created by
\* an approval, holds the first prompt, and now holds the second as well
C6_Witness ==
    \E w \in Workers :
        /\ rq[w].pc = "finish"
        /\ rq[w].name # NoName
        /\ categories[rq[w].final].from_sub # 0
        /\ Cardinality({p \in PromptIds :
                           prompts[p].category_id = rq[w].final}) = 2
        /\ Cardinality({c \in CatIds : Matches(c, rq[w].name)}) = 1

RECURSIVE Closure(_, _)
Closure(S, parents) ==
    LET T == S \cup {categories[i].parent_id : i \in S \cap CatIds}
        U == S \cup {i \in CatIds : categories[i].parent_id \in S}
        N == IF parents THEN T ELSE U
    IN IF N = S THEN S ELSE Closure(N, parents)

\* the categories reached from c by following parent_id upwards
AncestorsOf(c) == Closure({categories[c].parent_id}, TRUE) \cap CatIds

\* c and every category below it
SubtreeOf(c) == Closure({c}, FALSE)

\* C9: the parent graph is acyclic, no category is its own ancestor.
C9_ParentGraphAcyclic == \A c \in CatIds : c \notin AncestorsOf(c)

\* C10: the count reported for a category is the number of published
\* prompts whose category_id lies in the subtree of the category.
C10_CountIsPublishedRollup ==
    \A c \in CatIds :
        category_counts(c) =
            Cardinality({p \in PromptIds :
                            /\ prompts[p].status = "published"
                            /\ prompts[p].category_id \in SubtreeOf(c)})

\* C8: no two categories share a name and no two categories share a slug.
C8_NamesAndSlugsUnique ==
    \A c, d \in CatIds :
        c # d => /\ categories[c].name # categories[d].name
                 /\ categories[c].slug # categories[d].slug

\* categories written by the seed import and by an approval stand, and a
\* write that would have duplicated a name or a slug has just been refused
C8_Witness ==
    /\ Len(categories) >= 2
    /\ \E c \in CatIds : categories[c].from_sub # 0
    /\ \E c \in CatIds : categories[c].sort_order = DefaultSortOrder
    /\ response = "IntegrityError"

\* the category ids whose prompts the category filter c of the listing
\* accepts through Prompt.category_id
FilterIds(c) ==
    {d \in CatIds :
        CategoryMatches([category_id |-> d, subcategory_id |-> NULL], c)}

\* C11: for every category id, the subtree the listing resolves for it
\* contains the id itself and is the set of categories reachable from it
\* through parent-to-child edges, also when the parent graph has a cycle.
C11_SubtreeIsReachableSet ==
    \A c \in CatIds : c \in FilterIds(c) /\ FilterIds(c) = SubtreeOf(c)

LowerText(text) == [i \in 1..Len(text) |-> Lower(text[i])]

\* q occurs in text, letter case ignored
Contains(text, q) ==
    \E i \in 0..(Len(text) - Len(q)) :
        SubSeq(LowerText(text), i + 1, i + Len(q)) = LowerText(q)

\* C12: the listing with category filter X and query q returns exactly the
\* published prompts whose title, body or instructions contains q, letter
\* case ignored, and whose own category_id lies in the subtree of X.
C12_ListingIsSubtreeSearch ==
    \A q \in QueryInputs, X \in CatIds :
        {Selected(q, X)[i] : i \in 1..Len(Selected(q, X))} =
            {p \in PromptIds :
                /\ prompts[p].status = "published"
                /\ \/ Contains(prompts[p].title, q)
                   \/ Contains(prompts[p].body, q)
                   \/ Contains(prompts[p].instructions, q)
                /\ prompts[p].category_id \in SubtreeOf(X)}

\* the category parameter of a listing: absent, 0, an id
CategoryInputs == {NULL} \cup (0..Len(categories))

\* prompt p is in some published listing
Listed(p) ==
    \E q \in QueryInputs, X \in CategoryInputs :
        LET found == Selected(q, X)
        IN \E i \in 1..Len(found) : found[i] = p

\* C13: archiving sets the prompt's status to archived and removes no row;
\* afterwards the prompt is in no published listing, the public read of it
\* answers not-found and the admin read still returns it under the same id;
\* a public read returns a prompt only if its status is published.
C13_ArchivedIsHiddenNotRemoved ==
    /\ [][response = NoResponse /\ response' = "PromptArchived"
             => /\ Len(prompts') = Len(prompts)
                /\ \E p \in PromptIds :
                      prompts' = [prompts EXCEPT ![p].status = "archived"]]_vars
    /\ [](\A p \in PromptIds :
             /\ p \in admin_prompts
             /\ prompts[p].status # "published"
                   => ~Listed(p) /\ get_prompt(p) = NotFound)

\* a published prompt that was listed has just been archived, next to one
\* that is still published
C13_Witness ==
    /\ response = "PromptArchived"
    /\ \E p, r \in PromptIds :
          /\ prompts[p].status = "archived"
          /\ get_prompt(p) = NotFound /\ p \in admin_prompts
          /\ prompts[r].status = "published" /\ Listed(r) /\ get_prompt(r) = r

\* the tables move_up and then move_down of category id may leave
UpThenDown(id) ==
    UNION {Moved(up, id, next_category(up, id)) :
              up \in Moved(categories, id, prev_category(categories, id))}

\* C14 as stated: move_up followed by move_down on the same category
\* restores every category's sort_order, for every category and every
\* reachable set of sort_order values.
C14_UpThenDownRestores ==
    \A id \in CatIds : UpThenDown(id) = {categories}

HasLower(id) ==
    \E j \in CatIds : categories[j].sort_order < categories[id].sort_order

SharesSortOrder(id) ==
    \E j \in CatIds \ {id} :
        categories[j].sort_order = categories[id].sort_order

\* C14 amended: move_up followed by move_down on the same category restores
\* that category's sort_order when the category is not first in the
\* ordering, and every category's sort_order when in addition no other
\* category has its sort_order; on a first category move_up changes nothing,
\* so the pair is the move_down alone.
C14_UpThenDownRestoresUnlessFirst ==
    \A id \in CatIds :
        IF HasLower(id)
        THEN /\ \A t \in UpThenDown(id) :
                   t[id].sort_order = categories[id].sort_order
             /\ ~SharesSortOrder(id) => UpThenDown(id) = {categories}
        ELSE UpThenDown(id) =
                 Moved(categories, id, next_category(categories, id))

\* a category has just been moved down; two categories hold the sort_order
\* of the seed import, the pair moves a third one up and back, and on a
\* first category the pair is not the identity
C14_Witness ==
    /\ response = "CategoryMovedDown"
    /\ \E a, b, c \in CatIds :
          /\ a # c
          /\ categories[a].sort_order = categories[c].sort_order
          /\ HasLower(b) /\ ~SharesSortOrder(b)
          /\ prev_category(categories, b) = {a, c}
          /\ UpThenDown(b) = {categories}
          /\ ~HasLower(c) /\ UpThenDown(c) # {categories}

GreatestBelow(id) ==
    {j \in CatIds :
        /\ categories[j].sort_order < categories[id].sort_order
        /\ \A k \in CatIds :
              categories[k].sort_order < categories[id].sort_order
                  => categories[k].sort_order <= categories[j].sort_order}

LeastAbove(id) ==
    {j \in CatIds :
        /\ categories[j].sort_order > categories[id].sort_order
        /\ \A k \in CatIds :
              categories[k].sort_order > categories[id].sort_order
                  => categories[k].sort_order >= categories[j].sort_order}

MoveOutcome(id, neighbours, info, done) ==
    IF id \notin CatIds
    THEN response' = "NoSuchCategory" /\ categories' = categories
    ELSE IF neighbours = {}
    THEN response' = info /\ categories' = categories
    ELSE /\ response' = done
         /\ \E j \in neighbours :
               categories' =
                   [categories EXCEPT
                       ![id].sort_order = categories[j].sort_order,
                       ![j].sort_order = categories[id].sort_order]

\* C15: move_up(id) exchanges the sort_order of the category with that of a
\* category holding the greatest sort_order strictly less than its own
\* (move_down: the least strictly greater), whatever the parents, and
\* changes nothing else; when there is no such category it answers with a
\* message and changes nothing; an unknown id is answered NotFound.
C15_MoveSwapsWithNeighbour ==
    [][\A id \in 1..(Len(categories) + 1) :
          /\ move_category_up(id)
                => MoveOutcome(id, GreatestBelow(id), "AlreadyAtTop",
                               "CategoryMovedUp")
          /\ move_category_down(id)
                => MoveOutcome(id, LeastAbove(id), "AlreadyAtBottom",
                               "CategoryMovedDown")]_vars

\* a category has been moved above a category of another parent, past a
\* category that holds a smaller sort_order still
C15_Witness ==
    /\ response = "CategoryMovedUp"
    /\ \E a, b, c \in CatIds :
          /\ categories[a].sort_order < categories[b].sort_order
          /\ categories[b].sort_order < categories[c].sort_order
          /\ b > c
          /\ categories[b].parent_id # categories[c].parent_id

\* the greatest sort_order among the first n rows of a table, 0 if none
MaxSortOrder(cats, n) ==
    LET S == {cats[j].sort_order : j \in 1..n} \cup {0}
    IN CHOOSE m \in S : \A x \in S : x <= m

\* C16: every category that is created, by the admin, by an approval or by
\* the seed import, gets sort_order = (maximum sort_order of the categories
\* that exist) + 1 and so is strictly last in the global ordering.
C16_NewCategoryIsLast ==
    [][\A i \in (Len(categories) + 1)..Len(categories') :
          categories'[i].sort_order = MaxSortOrder(categories', i - 1) + 1]_vars

\* C17: a submission is stored only when exactly one of category_id and
\* suggested_category_name is supplied; a request with both or with neither
\* is refused with a validation error and stores nothing, so every stored
\* submission has exactly one of the two fields set.
C17_ExactlyOneCategoryField ==
    [][/\ \A t \in TitleInputs, c \in CategoryFormInputs,
             n \in NameInputs \cup {NoName} :
             create_submission(t, c, n)
                 => IF (c.kind = "int") # (n # NoName)
                    THEN TRUE
                    ELSE /\ submissions' = submissions
                         /\ response' \in {"SuggestedNameRequired",
                                           "InvalidCategoryId"}
       /\ \A s \in 1..Len(submissions') :
             (submissions'[s].category_id # NULL)
                 # (submissions'[s].suggested_category_name # NoName)]_vars

\* C18: every Prompt's category_id is the id of an existing Category,
\* whichever handler wrote the prompt; an approval publishes no prompt whose
\* category_id names no category.
C18_PromptCategoryExists ==
    \A p \in PromptIds : prompts[p].category_id \in CatIds

\* C19: every Prompt's status is one of draft, published, archived,
\* whichever handler wrote it last.
C19_PromptStatusIsKnown ==
    \A p \in PromptIds : prompts[p].status \in {"draft", "published", "archived"}

\* the items of pages 1..n of a listing, one after the other
RECURSIVE PagesUpTo(_, _, _, _)
PagesUpTo(q, X, page_size, n) ==
    IF n = 0 THEN << >>
    ELSE PagesUpTo(q, X, page_size, n - 1)
             \o list_prompts(q, X, n, page_size).items

\* ceil(total / page_size)
Ceil(total, page_size) ==
    CHOOSE n \in 0..total :
        n * page_size >= total /\ (n > 0 => (n - 1) * page_size < total)

\* C20: for every page >= 1 and page_size >= 1 the listing returns the slice
\* of the full filtered result that starts at offset (page-1)*page_size and
\* has at most page_size items, total is the size of the full filtered
\* result whatever the page, total_pages is ceil(total/page_size), and the
\* pages 1..total_pages, one after the other, are the full result.
C20_PagesPartitionTheResult ==
    \A X \in CategoryInputs, page_size \in PageInputs :
        LET full == Selected(NoName, X)
            pages == Ceil(Len(full), page_size)
        IN /\ \A page \in PageInputs :
                 LET r == list_prompts(NoName, X, page, page_size)
                     offset == (page - 1) * page_size
                 IN /\ r.total = Len(full)
                    /\ r.totalPages = pages
                    /\ Len(r.items) <= page_size
                    /\ \A k \in 1..page_size :
                          IF offset + k <= Len(full)
                          THEN /\ k <= Len(r.items)
                               /\ r.items[k] = full[offset + k]
                          ELSE k > Len(r.items)
           /\ PagesUpTo(NoName, X, page_size, pages) = full

\* two published prompts in two categories: the unfiltered listing has two
\* pages of one item, the listing of one category has one
C20_Witness ==
    /\ Len(Selected(NoName, NULL)) = 2
    /\ list_prompts(NoName, NULL, 2, 1).items = <<2>>
    /\ list_prompts(NoName, NULL, 2, 1).totalPages = 2
    /\ list_prompts(NoName, 2, 1, 1).items = <<2>>
    /\ list_prompts(NoName, 2, 1, 1).totalPages = 1

\* C21: creating a category whose name normalizes to the slug of an existing
\* category answers with that category (a success carrying its id) and adds
\* no row.
C21_CreateSameSlugReturnsExisting ==
    [][\A n \in NameInputs, p \in {NULL} \cup CatIds :
          create_category(n, p)
              /\ (\E c \in CatIds : categories[c].slug = slugify(n))
              => /\ Len(categories') = Len(categories)
                 /\ response' = "CategoryCreated"]_vars

\* C22: creating a category with a name an existing category has fails with
\* Conflict and leaves the categories and their sort_order unchanged.
C22_CreateSameNameIsConflict ==
    [][\A n \in NameInputs, p \in {NULL} \cup CatIds :
          create_category(n, p)
              /\ (\E c \in CatIds : categories[c].name = n)
              => /\ categories' = categories
                 /\ response' \in Conflict]_vars

\* C30: admin_required grants access only to a request whose admin_session
\* cookie or X-Admin-Key header equals the configured ADMIN_KEY, and when
\* ADMIN_KEY is not configured every request is refused with "Admin key not
\* configured", the request without cookie and header included
C30_OnlyTheConfiguredKeyGrants ==
    [][\A ck, hd \in CredentialInputs :
          admin_categories(ck, hd)
              => /\ response' = "CategoryList"
                    => /\ ADMIN_KEY # Unset
                       /\ ck = ADMIN_KEY \/ hd = ADMIN_KEY
                 /\ ADMIN_KEY = Unset
                    => response' = "AdminKeyNotConfigured"]_vars

\* C23: in every reachable state every document has exactly one of file_path
\* and external_url populated, the one its document_type names: file_path
\* for "file", external_url for "link"
C23_OneLocationPerDocument ==
    \A i \in DocIds :
        LET d == documents[i]
        IN /\ d.document_type \in {"file", "link"}
           /\ d.document_type = "file"
                 => d.file_path # NoName /\ d.external_url = NoName
           /\ d.document_type = "link"
                 => d.external_url # NoName /\ d.file_path = NoName

\* C24: registering a file document whose file_path the blob store does not
\* hold stores no row and is refused as not found or invalid, not with an
\* internal error; a link document of an existing prompt is stored without
\* the store being asked
C24_MissingBlobIsNotFound ==
    [][\A p \in PromptIds, path \in PathInputs, url \in {Url, NoName},
          store \in StoreInputs :
          /\ save_document_metadata(p, "file", path, url, "up")
                 /\ path \notin blobs
                 => /\ documents' = documents
                    /\ response' \in Status404 \cup Status400
          /\ save_document_metadata(p, "link", NoName, Url, store)
                 => /\ DOMAIN documents' = DocIds \cup {NewDocId}
                    /\ response' = "DocumentSaved"]_vars

\* C25: deleting an existing document removes its row, leaves the other rows
\* as they are and reports success whatever the blob store does; the blob
\* of a file document is gone when the store answered
C25_DeleteAlwaysRemovesTheRow ==
    [][\A id \in DocIds, store \in StoreInputs :
          delete_document(id, store)
              => /\ DOMAIN documents' = DocIds \ {id}
                 /\ \A i \in DocIds \ {id} : documents'[i] = documents[i]
                 /\ response' = "DocumentDeleted"
                 /\ documents[id].document_type = "file" /\ store = "up"
                       => documents[id].file_path \notin blobs']_vars

\* a document has just been deleted while the store still holds every blob:
\* the store refused the deletion, or the document was a link
C25_Witness ==
    /\ response = "DocumentDeleted"
    /\ DocIds = {}
    /\ blobs = {PrivateA}

\* C29: for a document whose prompt is not published, get_document_info
\* answers not found and serve_document does not redirect to its private
\* file
C29_UnpublishedDocumentsAreHidden ==
    \A i \in DocIds :
        LET d == documents[i]
        IN Missing(prompts, d.prompt_id)
              \/ prompts[d.prompt_id].status # "published"
           => /\ get_document_info(i) \in Status404
              /\ d.file_path # NoName /\ ~is_file_public(d.file_path)
                    => \A store \in StoreInputs :
                          serve_document(d.file_path, store) # "Redirect"

\* C26: a second run of the seed import on the same list leaves the
\* categories and the prompts as the first run left them, whatever the
\* tables held before the first run and also when the list names the same
\* title and category twice
C26_SeedImportIsIdempotent ==
    \A data \in SeedLists :
        LET once == SeedRun(categories, prompts, data)
            twice == SeedRun(once.categories, once.prompts, data)
        IN /\ twice.categories = once.categories
           /\ twice.prompts = once.prompts

\* the tables are what one run on a list with a repeated item left, and
\* the run stored a prompt
C26_Witness ==
    \E data \in SeedLists :
        /\ Len(data) >= 2 /\ data[1] = data[2]
        /\ prompts # << >>
        /\ categories = SeedRun(<< >>, << >>, data).categories
        /\ prompts = SeedRun(<< >>, << >>, data).prompts

\* a step of worker w that belongs to a request whose status is "rejected"
RejectingStep(w) ==
    /\ rq'[w] # rq[w]
    /\ \/ rq[w].pc = "idle" /\ rq'[w].status = "rejected"
       \/ rq[w].pc # "idle" /\ rq[w].status = "rejected"

\* C27: every step of a rejecting request leaves the categories, the
\* prompts and every other submission as they are and changes nothing of
\* its own submission but status, reviewer_notes and reviewed_at, so that an
\* unset approved_prompt_id stays unset; the request that answers has set
\* the three fields
C27_RejectionChangesThreeFields ==
    [][\A w \in Workers :
          RejectingStep(w) =>
              LET sid == IF rq[w].pc = "idle" THEN rq'[w].sid ELSE rq[w].sid
                  rejected == [submissions[sid] EXCEPT
                                  !.status = "rejected",
                                  !.reviewer_notes = rq[w].notes,
                                  !.reviewed_at = Stamp]
              IN /\ categories' = categories
                 /\ prompts' = prompts
                 /\ Len(submissions') = Len(submissions)
                 /\ \A s \in SubIds \ {sid} : submissions'[s] = submissions[s]
                 /\ submissions'[sid] \in {submissions[sid], rejected}
                 /\ submissions[sid].approved_prompt_id = NULL
                       => submissions'[sid].approved_prompt_id = NULL
                 /\ response' = "Reviewed" => submissions'[sid] = rejected]_vars

\* a submission that suggests a category has just been rejected: it holds
\* no prompt id, nothing was created and the other submission is pending
C27_Witness ==
    /\ response = "Reviewed"
    /\ categories = << >> /\ prompts = << >>
    /\ Len(submissions) = 2
    /\ submissions[1].status = "rejected"
    /\ submissions[1].reviewed_at = Stamp
    /\ submissions[1].suggested_category_name # NoName
    /\ submissions[1].approved_prompt_id = NULL
    /\ submissions[2].status = "pending"

\* C28: started on an empty table, the admin create, the approval-time
\* create, move_up and move_down keep the sort_order values of the
\* categories pairwise distinct
C28_SortOrdersStayDistinct ==
    \A a, b \in CatIds :
        a # b => categories[a].sort_order # categories[b].sort_order
====
